---- MODULE Spec2Model ----
(***************************************************************************)
(* Model of the assertion library in src/assertions.go.                    *)
(*                                                                         *)
(* The library is stateless; the only state is the reporting handle T      *)
(* (a failed flag and a log) that every assertion borrows.  An assertion   *)
(* call is one atomic step: its run is the sequence of calls it makes      *)
(* (t.Helper, t.Logf, t.Fail, the caller's predicates, map lookups, ...)   *)
(* and whether it returned or panicked.                                    *)
(*                                                                         *)
(* Text is modelled as a sequence of tokens (the words of the string, and  *)
(* "\n" for a newline).                                                    *)
(***************************************************************************)
EXTENDS Integers, Sequences, FiniteSets, TLC

VARIABLES
    failed,   \* T: the test has been marked failed
    log,      \* T: the lines logged so far, oldest first
    fn,       \* the assertion called last
    args,     \* its arguments
    trace,    \* the calls it made, in order
    status,   \* "idle" before any call, then "returned" or "panicked"
    calls     \* number of assertion calls made on the handle

vars == <<failed, log, fn, args, trace, status, calls>>

-----------------------------------------------------------------------------
(* Bounds *)

MaxCalls == 2      \* assertion calls in one test body
MaxLen == 2        \* longest slice
MaxKey == 2        \* map keys are 1..MaxKey
SeqLen == 1        \* longest slice in a test body of several calls

-----------------------------------------------------------------------------
(* Text *)

NL == "\n"

Verbs == {"%v", "%d", "%q", "%#v"}

RECURSIVE Sprintf(_, _)
Sprintf(format, a) ==
    IF format = <<>> THEN <<>>
    ELSE IF Head(format) \in Verbs /\ a # <<>>
         THEN <<Head(a)>> \o Sprintf(Tail(format), Tail(a))
         ELSE <<Head(format)>> \o Sprintf(Tail(format), a)

RECURSIVE TrimLeft(_)
TrimLeft(s) == IF s # <<>> /\ Head(s) = NL THEN TrimLeft(Tail(s)) ELSE s

RECURSIVE TrimRight(_)
TrimRight(s) ==
    IF s # <<>> /\ s[Len(s)] = NL THEN TrimRight(SubSeq(s, 1, Len(s) - 1)) ELSE s

TrimSpace(s) == TrimRight(TrimLeft(s))

HasPrefix(s, p) == Len(s) >= Len(p) /\ SubSeq(s, 1, Len(p)) = p

-----------------------------------------------------------------------------
(* The reporting handle T and the calls of one invocation *)

tHelper == [op |-> "Helper", line |-> <<>>]
tLogf(line) == [op |-> "Logf", line |-> line]
tFail == [op |-> "Fail", line |-> <<>>]
\* a call out of the library that is not a call on T: a caller's predicate, an
\* Equals method, a map lookup, a nested InDelta, the subtraction a-b
Call(what, i) == [op |-> what, line |-> <<ToString(i)>>]

Ret(ev) == [ev |-> ev, st |-> "returned"]
Panic(ev) == [ev |-> ev, st |-> "panicked"]

Marks(ev) == \E i \in 1..Len(ev) : ev[i].op = "Fail"

fail_LogAfter(msg, a) == <<tFail, tLogf(TrimSpace(Sprintf(msg, a)) \o <<NL>>)>>

fail(msg, a) == <<tLogf(TrimSpace(Sprintf(msg, a)) \o <<NL>>), tFail>>

\* t.Logf(format, args...)
Logf(format, a) == tLogf(Sprintf(format, a))

Min(S) == CHOOSE x \in S : \A y \in S : x <= y

-----------------------------------------------------------------------------
(* Structural comparator.  A is the static type of the operands: values    *)
(* of an "opaque" type carry unexported fields, on which cmp.Equal and     *)
(* cmp.Diff panic as soon as they have to compare two of them.  sh is the  *)
(* shape of the operands: "val", "slice" or "map".                         *)

Types == {"plain", "opaque"}

\* cmp has a pair of elements to compare
Reaches(sh, a, b) ==
    CASE sh = "val" -> TRUE
      [] sh = "slice" -> a # <<>> /\ b # <<>>
      [] sh = "map" -> (DOMAIN a) \cap (DOMAIN b) # {}

cmpPanics(A, sh, a, b) == A = "opaque" /\ Reaches(sh, a, b)

cmpEqual(a, b) == a = b

DeepEqual(a, b) == a = b

GoString(a) == ToString(a)

\* cmp.Diff: the empty string for equal operands, a report otherwise
cmpDiff(a, b) ==
    IF cmpEqual(a, b) THEN <<>>
    ELSE <<"-", GoString(a), NL, "+", GoString(b), NL>>

Banner == <<"difference!", NL>>

diff(A, sh, a, b) ==
    IF cmpPanics(A, sh, a, b)
    THEN Sprintf(<<"difference!", NL, "a:", "%#v", NL, "b:", "%#v", NL>>,
                 <<GoString(a), GoString(b)>>)
    ELSE Banner \o cmpDiff(a, b)

equal(A, sh, a, b) ==
    IF cmpPanics(A, sh, a, b) THEN DeepEqual(a, b) ELSE cmpEqual(a, b)

-----------------------------------------------------------------------------
(* Caller-supplied capabilities *)

\* the predicates a caller passes as eq
EqPreds == {"same", "never", "always"}

ApplyEq(eq, a, b) ==
    CASE eq = "same" -> a = b
      [] eq = "never" -> FALSE
      [] eq = "always" -> TRUE

\* the Equals method of the caller's type: an equivalence coarser than ==
EqualsMethod(a, b) == (a % 2) = (b % 2)

\* the Less method of the caller's type
LessMethod(a, b) == a < b

\* errors: the wrapping chain, outermost first; the nil error is <<>>
NilErr == <<>>

Errs == {NilErr, <<"e1">>, <<"e2">>, <<"w:", "e1">>}

ErrorString(err) == err

ErrV(err) == IF err = NilErr THEN <<"<nil>">> ELSE ErrorString(err)

Quote(s) == <<"\"">> \o s \o <<"\"">>

errorsIs(err, target) ==
    IF err = NilErr \/ target = NilErr THEN err = target
    ELSE \E i \in 1..Len(err) : SubSeq(err, i, Len(err)) = target

-----------------------------------------------------------------------------
(* Assertions on scalars *)

Nil(a) ==
    Ret(<<tHelper>> \o
        (IF a # "nil"
         THEN fail(<<";;", "expected", "to", "be", "nil;", "is", "not", "nil">>, <<>>)
         ELSE <<>>))

NotNil(a) ==
    Ret(<<tHelper>> \o
        (IF a = "nil"
         THEN fail(<<";;", "expected", "to", "not", "be", "nil;", "is", "nil">>, <<>>)
         ELSE <<>>))

True(condition) ==
    Ret(<<tHelper>> \o
        (IF ~condition
         THEN fail(<<";;", "expected", "condition", "to", "be", "true;", "is", "false">>, <<>>)
         ELSE <<>>))

False(condition) ==
    Ret(<<tHelper>> \o
        (IF condition
         THEN fail(<<";;", "expected", "condition", "to", "be", "false;", "is", "true">>, <<>>)
         ELSE <<>>))

Error(err) ==
    Ret(<<tHelper>> \o
        (IF err = NilErr
         THEN fail(<<";;", "expected", "non-nil", "error;", "is", "nil">>, <<>>)
         ELSE <<>>))

\* err.Error() on the nil error is a call through a nil interface: it panics
EqError(err, msg) ==
    IF err = NilErr THEN Panic(<<tHelper>>)
    ELSE LET s == ErrorString(err) IN
         Ret(<<tHelper>> \o
             (IF s # msg
              THEN <<tLogf(<<"msg:">> \o Quote(msg)), tLogf(<<"err:">> \o Quote(s))>>
                   \o fail(<<";;", "expected", "matching", "error", "strings">>, <<>>)
              ELSE <<>>))

ErrorIs(err, target) ==
    Ret(<<tHelper>> \o
        (IF ~errorsIs(err, target)
         THEN <<tLogf(<<"error:">> \o ErrV(err)), tLogf(<<"target:">> \o ErrV(target))>>
              \o fail(<<";;", "expected", "errors.Is", "match">>, <<>>)
         ELSE <<>>))

NoError_Unmarked(err) ==
    Ret(<<tHelper>> \o
        (IF err # NilErr
         THEN <<tLogf(<<"error:">> \o ErrV(err))>>
              \o fail(<<"expected", "nil", "error">>, <<>>)
         ELSE <<>>))

NoError(err) ==
    Ret(<<tHelper>> \o
        (IF err # NilErr
         THEN <<tLogf(<<"error:">> \o ErrV(err))>>
              \o fail(<<";;", "expected", "nil", "error">>, <<>>)
         ELSE <<>>))

Eq(A, a, b) ==
    Ret(<<tHelper>> \o
        (IF ~equal(A, "val", a, b)
         THEN <<tLogf(diff(A, "val", a, b))>>
              \o fail(<<";;", "expected", "equality", "via", "cmp.Equal", "function">>, <<>>)
         ELSE <<>>))

EqCmp(A, a, b) ==
    Ret(<<tHelper>> \o
        (IF a # b
         THEN <<tLogf(diff(A, "val", a, b))>>
              \o fail(<<";;", "expected", "equality", "via", "==">>, <<>>)
         ELSE <<>>))

EqFunc(A, a, b, eq) ==
    Ret(<<tHelper, Call("eq", 0)>> \o
        (IF ~ApplyEq(eq, a, b)
         THEN <<tLogf(diff(A, "val", a, b))>>
              \o fail(<<";;", "expected", "equality", "via", "'eq'", "function">>, <<>>)
         ELSE <<>>))

NotEq(a, b) ==
    Ret(<<tHelper>> \o
        (IF a = b
         THEN fail(<<";;", "expected", "inequality", "via", "!=">>, <<>>)
         ELSE <<>>))

NotEqFunc(a, b, eq) ==
    Ret(<<tHelper, Call("eq", 0)>> \o
        (IF ApplyEq(eq, a, b)
         THEN fail(<<";;", "expected", "inequality", "via", "'eq'", "function">>, <<>>)
         ELSE <<>>))

-----------------------------------------------------------------------------
(* EqJSON.  A document is one token; encoding/json is modelled on the      *)
(* documents of JSONDocs: an object with the one member "a", a number.     *)

JSONDocs == {"not-json", "{\"a\":1}", "{\"a\":1.0}", "{\"a\":2}"}

\* json.Unmarshal: the error ("" for nil) and the decoded tree
Unmarshal(s) ==
    CASE s = "{\"a\":1}" -> [err |-> "", val |-> 1]
      [] s = "{\"a\":1.0}" -> [err |-> "", val |-> 1]
      [] s = "{\"a\":2}" -> [err |-> "", val |-> 2]
      [] OTHER -> [err |-> "invalid-character", val |-> 0]

\* json.Marshal of a decoded tree
Marshal(v) == "{\"a\":" \o ToString(v) \o "}"

EqJSON(a, b) ==
    LET ua == Unmarshal(a)
        ub == Unmarshal(b)
    IN  IF ua.err # ""
        THEN Ret(<<tHelper>> \o
                 fail(<<"failed", "to", "unmarshal", "first", "argument", "as", "json:", "%v">>,
                      <<ua.err>>))
        ELSE IF ub.err # ""
        THEN Ret(<<tHelper>> \o
                 fail(<<"failed", "to", "unmarshal", "second", "argument", "as", "json:", "%v">>,
                      <<ub.err>>))
        ELSE IF ~DeepEqual(ua.val, ub.val)
        THEN Ret(<<tHelper, tLogf(diff("plain", "val", Marshal(ua.val), Marshal(ub.val)))>>
                 \o fail(<<";;", "expected", "equality", "via", "json", "marshalling">>, <<>>))
        ELSE Ret(<<tHelper>>)

-----------------------------------------------------------------------------
(* Slices.  Index i of the model is index i-1 of the Go slice.             *)

LenLines(what, lenA, lenB) ==
    << Logf(<<"len(" \o what, "a):", "%d", NL>>, <<ToString(lenA)>>),
       Logf(<<"len(" \o what, "b):", "%d", NL>>, <<ToString(lenB)>>) >>

\* the calls a loop over 1..n with a break at the first index of stop makes
Upto(stop, n) == IF stop = {} THEN n ELSE Min(stop)

EqSliceFunc(A, a, b, eq) ==
    LET lenA == Len(a)
        lenB == Len(b)
    IN  IF lenA # lenB
        THEN Ret(<<tHelper>> \o LenLines("slice", lenA, lenB)
                 \o <<tLogf(diff(A, "slice", a, b))>>
                 \o fail(<<";;", "expected", "slices", "of", "same", "length">>, <<>>))
        ELSE LET missAt == {i \in 1..lenA : ~ApplyEq(eq, a[i], b[i])}
                 loop == [i \in 1..Upto(missAt, lenA) |-> Call("eq", i - 1)]
             IN  IF missAt # {}
                 THEN Ret(<<tHelper>> \o loop \o <<tLogf(diff(A, "slice", a, b))>>
                          \o fail(<<";;", "expected", "slice", "equality", "via", "'eq'",
                                    "function">>, <<>>))
                 ELSE Ret(<<tHelper>> \o loop)

Equals(A, a, b) ==
    Ret(<<tHelper, Call("Equals", 0)>> \o
        (IF ~EqualsMethod(a, b)
         THEN <<tLogf(diff(A, "val", a, b))>>
              \o fail(<<";;", "expected", "equality", "via", ".Equals", "method">>, <<>>)
         ELSE <<>>))

NotEquals(A, a, b) ==
    Ret(<<tHelper, Call("Equals", 0)>> \o
        (IF EqualsMethod(a, b)
         THEN <<tLogf(diff(A, "val", a, b))>>
              \o fail(<<";;", "expected", "inequality", "via", ".Equals", "method">>, <<>>)
         ELSE <<>>))

EqualsSlice(A, a, b) ==
    LET lenA == Len(a)
        lenB == Len(b)
    IN  IF lenA # lenB
        THEN Ret(<<tHelper>> \o LenLines("slice", lenA, lenB)
                 \o <<tLogf(diff(A, "slice", a, b))>>
                 \o fail(<<";;", "expected", "slices", "of", "same", "length">>, <<>>))
        ELSE LET missAt == {i \in 1..lenA : ~EqualsMethod(a[i], b[i])}
                 n == Upto(missAt, lenA)
                 loop == [i \in 1..n |-> Call("Equals", i - 1)]
             IN  IF missAt # {}
                 THEN Ret(<<tHelper>> \o loop \o <<tLogf(diff(A, "val", a[n], b[n]))>>
                          \o fail(<<";;", "expected", "slice", "equality", "via", ".Equals",
                                    "method">>, <<>>))
                 ELSE Ret(<<tHelper>> \o loop)

Lesser(A, a, b) ==
    Ret(<<tHelper, Call("Less", 0)>> \o
        (IF ~LessMethod(a, b)
         THEN <<tLogf(diff(A, "val", a, b))>>
              \o fail(<<";;", "expected", "to", "be", "less", "via", ".Less", "method">>, <<>>)
         ELSE <<>>))

EmptySlice(slice) ==
    Ret(<<tHelper>> \o
        (IF Len(slice) # 0
         THEN <<Logf(<<"len(slice):", "%d", NL>>, <<ToString(Len(slice))>>)>>
              \o fail(<<";;", "expected", "slice", "to", "be", "empty">>, <<>>)
         ELSE <<>>))

LenSlice(n, slice) ==
    LET l == Len(slice) IN
    Ret(<<tHelper>> \o
        (IF l # n
         THEN <<Logf(<<"len(slice):", "%d,", "expected:", "%d", NL>>,
                     <<ToString(l) \o ",", ToString(n)>>)>>
              \o fail(<<";;", "expected", "slice", "to", "be", "different", "length">>, <<>>)
         ELSE <<>>))

contains(slice, item) == \E i \in 1..Len(slice) : slice[i] = item

\* a function value passed as eq: the closure over equal of Contains, a
\* caller's predicate, or the method value E.Equals
Closure(f, a, b) ==
    CASE f.kind = "equal" -> equal(f.A, "val", a, b)
      [] f.kind = "eq" -> ApplyEq(f.eq, a, b)
      [] f.kind = "Equals" -> EqualsMethod(a, b)

\* found, and the calls of eq made: the loop breaks at the first match
containsFunc(slice, item, f) ==
    LET hits == {i \in 1..Len(slice) : Closure(f, slice[i], item)}
    IN  [found |-> hits # {},
         ev |-> [i \in 1..Upto(hits, Len(slice)) |-> Call(f.kind, i - 1)]]

Missing(item) == Logf(<<"slice", "is", "missing", "%#v", NL>>, <<GoString(item)>>)

Contains(A, slice, item) ==
    LET r == containsFunc(slice, item, [kind |-> "equal", A |-> A])
    IN  Ret(<<tHelper>> \o r.ev \o
            (IF ~r.found
             THEN <<Missing(item)>>
                  \o fail(<<";;", "expected", "slice", "to", "contain", "missing", "item",
                            "via", "cmp.Equal", "function">>, <<>>)
             ELSE <<>>))

ContainsCmp(slice, item) ==
    Ret(<<tHelper>> \o
        (IF ~contains(slice, item)
         THEN <<Missing(item)>>
              \o fail(<<";;", "expected", "slice", "to", "contain", "missing", "item",
                        "via", "==", "operator">>, <<>>)
         ELSE <<>>))

ContainsFunc(slice, item, eq) ==
    LET r == containsFunc(slice, item, [kind |-> "eq", eq |-> eq])
    IN  Ret(<<tHelper>> \o r.ev \o
            (IF ~r.found
             THEN <<Missing(item)>>
                  \o fail(<<";;", "expected", "slice", "to", "contain", "missing", "item",
                            "via", "'eq'", "function">>, <<>>)
             ELSE <<>>))

ContainsEquals(slice, item) ==
    LET r == containsFunc(slice, item, [kind |-> "Equals"])
    IN  Ret(<<tHelper>> \o r.ev \o
            (IF ~r.found
             THEN <<Missing(item)>>
                  \o fail(<<";;", "expected", "slice", "to", "contain", "missing", "item",
                            "via", ".Equals", "method">>, <<>>)
             ELSE <<>>))

-----------------------------------------------------------------------------
(* Ordering *)

Less(a, b) ==
    Ret(<<tHelper>> \o
        (IF ~(a < b)
         THEN fail(<<";;", "expected", "%v", "<", "%v">>, <<ToString(a), ToString(b)>>)
         ELSE <<>>))

LessEq(a, b) ==
    Ret(<<tHelper>> \o
        (IF ~(a <= b)
         THEN fail(<<";;", "expected", "%v", "<=", "%v">>, <<ToString(a), ToString(b)>>)
         ELSE <<>>))

Greater(a, b) ==
    Ret(<<tHelper>> \o
        (IF ~(a > b)
         THEN fail(<<";;", "expected", "%v", ">", "%v">>, <<ToString(a), ToString(b)>>)
         ELSE <<>>))

GreaterEq(a, b) ==
    Ret(<<tHelper>> \o
        (IF ~(a >= b)
         THEN fail(<<";;", "expected", "%v", ">=", "%v">>, <<ToString(a), ToString(b)>>)
         ELSE <<>>))

-----------------------------------------------------------------------------
(* Numbers.  N is the operand type; a number is finite with value v, or    *)
(* (float64 only) NaN or an infinity.  Arithmetic is done in the operand   *)
(* type: fixed-width integers wrap around.  The finite float64 values of   *)
(* the model are small integers, on which float64 arithmetic is exact.     *)

NumKinds == {"int8", "uint8", "float64"}

Fin(v) == [c |-> "fin", v |-> v]
NaN == [c |-> "nan", v |-> 0]
PosInf == [c |-> "pinf", v |-> 0]
NegInf == [c |-> "ninf", v |-> 0]

\* values of type N differ by a multiple of Modulus after overflow
Modulus == 256

Wrap(N, x) ==
    CASE N = "int8" -> ((x + Modulus \div 2) % Modulus) - Modulus \div 2
      [] N = "uint8" -> x % Modulus
      [] N = "float64" -> x

IsNaN(f) == f.c = "nan"
IsInf(f) == f.c \in {"pinf", "ninf"}

Numeric(n) ==
    LET check(f) == IF IsNaN(f) THEN FALSE ELSE IF IsInf(f) THEN FALSE ELSE TRUE
    IN  check(n)

\* the order of the operand type: every comparison with NaN is false
Rank(n) == CASE n.c = "ninf" -> -1 [] n.c = "pinf" -> 1 [] OTHER -> 0

Lt(a, b) ==
    /\ ~IsNaN(a) /\ ~IsNaN(b)
    /\ \/ Rank(a) < Rank(b)
       \/ Rank(a) = 0 /\ Rank(b) = 0 /\ a.v < b.v

Le(a, b) == ~IsNaN(a) /\ ~IsNaN(b) /\ (Lt(a, b) \/ (Rank(a) = Rank(b) /\ a.v = b.v))

Neg(N, d) ==
    CASE d.c = "fin" -> Fin(Wrap(N, 0 - d.v))
      [] d.c = "nan" -> NaN
      [] d.c = "pinf" -> NegInf
      [] d.c = "ninf" -> PosInf

Sub(N, a, b) ==
    IF a.c = "fin" /\ b.c = "fin" THEN Fin(Wrap(N, a.v - b.v))
    ELSE IF IsNaN(a) \/ IsNaN(b) \/ a.c = b.c THEN NaN
    ELSE IF IsInf(a) THEN a
    ELSE Neg(N, b)

Show(n) ==
    CASE n.c = "fin" -> ToString(n.v)
      [] n.c = "nan" -> "NaN"
      [] n.c = "pinf" -> "+Inf"
      [] n.c = "ninf" -> "-Inf"

NotWithin == <<";;", "%v", "and", "%v", "not", "within", "%v">>

InDelta_OperandsUnchecked(N, a, b, delta) ==
    LET zero == Fin(0) IN
    IF ~Numeric(delta)
    THEN Ret(<<tHelper>> \o
             fail(<<";;", "delta", "must", "be", "numeric;", "got", "%v">>, <<Show(delta)>>))
    ELSE IF Le(delta, zero)
    THEN Ret(<<tHelper>> \o
             fail(<<";;", "delta", "must", "be", "positive;", "got", "%v">>, <<Show(delta)>>))
    ELSE LET difference == Sub(N, a, b) IN
         Ret(<<tHelper, Call("sub", 0)>> \o
             (IF Lt(difference, Neg(N, delta)) \/ Lt(delta, difference)
              THEN fail(NotWithin, <<Show(a), Show(b), Show(delta)>>)
              ELSE <<>>))

InDelta(N, a, b, delta) ==
    LET zero == Fin(0) IN
    IF ~Numeric(delta)
    THEN Ret(<<tHelper>> \o
             fail(<<";;", "delta", "must", "be", "numeric;", "got", "%v">>, <<Show(delta)>>))
    ELSE IF Le(delta, zero)
    THEN Ret(<<tHelper>> \o
             fail(<<";;", "delta", "must", "be", "positive;", "got", "%v">>, <<Show(delta)>>))
    ELSE IF ~Numeric(a)
    THEN Ret(<<tHelper>> \o
             fail(<<";;", "first", "argument", "must", "be", "numeric;", "got", "%v">>,
                  <<Show(a)>>))
    ELSE IF ~Numeric(b)
    THEN Ret(<<tHelper>> \o
             fail(<<";;", "second", "argument", "must", "be", "numeric;", "got", "%v">>,
                  <<Show(b)>>))
    ELSE LET difference == Sub(N, a, b) IN
         Ret(<<tHelper, Call("sub", 0)>> \o
             (IF Lt(difference, Neg(N, delta)) \/ Lt(delta, difference)
              THEN fail(NotWithin, <<Show(a), Show(b), Show(delta)>>)
              ELSE <<>>))

RECURSIVE Flatten(_)
Flatten(ss) == IF ss = <<>> THEN <<>> ELSE Head(ss) \o Flatten(Tail(ss))

InDeltaSlice_StopAtFirst(N, a, b, delta) ==
    IF Len(a) # Len(b)
    THEN Ret(<<tHelper>> \o LenLines("slice", Len(a), Len(b))
             \o fail(<<";;", "expected", "slices", "of", "same", "length">>, <<>>))
    ELSE LET bad == {i \in 1..Len(a) : Marks(InDelta(N, a[i], b[i], delta).ev)}
         IN  Ret(<<tHelper>> \o
                 Flatten([i \in 1..Upto(bad, Len(a)) |->
                             <<Call("InDelta", i - 1)>> \o InDelta(N, a[i], b[i], delta).ev]))

InDeltaSlice(N, a, b, delta) ==
    IF Len(a) # Len(b)
    THEN Ret(<<tHelper>> \o LenLines("slice", Len(a), Len(b))
             \o fail(<<";;", "expected", "slices", "of", "same", "length">>, <<>>))
    ELSE Ret(<<tHelper>> \o
             Flatten([i \in 1..Len(a) |->
                         <<Call("InDelta", i - 1)>> \o InDelta(N, a[i], b[i], delta).ev]))

-----------------------------------------------------------------------------
(* Maps: functions from a set of keys.  range visits the keys of a in an   *)
(* order the runtime chooses: order lists the keys of a in that order.     *)

MapValueMsg(mode) ==
    CASE mode = "cmp.Equal" ->
             <<";;", "expected", "maps", "of", "same", "values", "via", "cmp.Diff", "function">>
      [] mode = "eq" ->
             <<";;", "expected", "maps", "of", "same", "values", "via", "'eq'", "function">>
      [] mode = "Equals" ->
             <<";;", "expected", "maps", "of", "same", "values", "via", ".Equals", "method">>

SameKeys == <<";;", "expected", "maps", "of", "same", "keys">>
SameLength == <<";;", "expected", "maps", "of", "same", "length">>

\* the value check of the three map assertions
MapValueOK(mode, eq, valueA, valueB) ==
    CASE mode = "cmp.Equal" -> cmpEqual(valueA, valueB)
      [] mode = "eq" -> ApplyEq(eq, valueA, valueB)
      [] mode = "Equals" -> EqualsMethod(valueB, valueA)

\* the loop over the keys of a, from position i of order on
RECURSIVE mapLoop(_, _, _, _, _, _, _)
mapLoop(mode, A, a, b, eq, order, i) ==
    IF i > Len(order) THEN Ret(<<>>)
    ELSE LET key == order[i] IN
         IF key \notin DOMAIN b
         THEN Ret(<<Call("lookup", key), tLogf(diff(A, "map", a, b))>> \o fail(SameKeys, <<>>))
         ELSE IF mode = "cmp.Equal" /\ cmpPanics(A, "val", a[key], b[key])
         THEN Panic(<<Call("lookup", key), Call(mode, key)>>)
         ELSE IF ~MapValueOK(mode, eq, a[key], b[key])
         THEN Ret(<<Call("lookup", key), Call(mode, key), tLogf(diff(A, "map", a, b))>>
                  \o fail(MapValueMsg(mode), <<>>))
         ELSE LET r == mapLoop(mode, A, a, b, eq, order, i + 1)
              IN  [ev |-> <<Call("lookup", key), Call(mode, key)>> \o r.ev, st |-> r.st]

Card(m) == Cardinality(DOMAIN m)

mapAssert(mode, A, a, b, eq, order) ==
    LET lenA == Card(a)
        lenB == Card(b)
    IN  IF lenA # lenB
        THEN Ret(<<tHelper>> \o LenLines("map", lenA, lenB) \o fail(SameLength, <<>>))
        ELSE LET r == mapLoop(mode, A, a, b, eq, order, 1)
             IN  [ev |-> <<tHelper>> \o r.ev, st |-> r.st]

MapEq_NoLengthCheck(A, a, b, order) ==
    LET r == mapLoop("cmp.Equal", A, a, b, "same", order, 1)
    IN  [ev |-> <<tHelper>> \o r.ev, st |-> r.st]

MapEq(A, a, b, order) == mapAssert("cmp.Equal", A, a, b, "same", order)

MapEqFunc(A, a, b, eq, order) == mapAssert("eq", A, a, b, eq, order)

MapEquals(A, a, b, order) == mapAssert("Equals", A, a, b, "same", order)

MapLen(n, m) ==
    LET l == Card(m) IN
    Ret(<<tHelper>> \o
        (IF l # n
         THEN <<Logf(<<"len(map):", "%d,", "expected:", "%d", NL>>,
                     <<ToString(l) \o ",", ToString(n)>>)>>
              \o fail(<<";;", "expected", "map", "to", "be", "different", "length">>, <<>>)
         ELSE <<>>))

MapEmpty(m) ==
    LET l == Card(m) IN
    Ret(<<tHelper>> \o
        (IF l > 0
         THEN <<Logf(<<"len(map):", "%d", NL>>, <<ToString(l)>>)>>
              \o fail(<<";;", "expected", "map", "to", "be", "empty">>, <<>>)
         ELSE <<>>))

-----------------------------------------------------------------------------
(* The reporting handle.  Logf appends a line, Fail sets the flag and      *)
(* returns, Helper changes nothing.                                        *)

TLogf(h, line) == [h EXCEPT !.log = Append(@, line)]
TFail(h) == [h EXCEPT !.failed = TRUE]
THelper(h) == h

RECURSIVE Apply(_, _)
Apply(h, ev) ==
    IF ev = <<>> THEN h
    ELSE LET e == Head(ev)
             h1 == CASE e.op = "Logf" -> TLogf(h, e.line)
                     [] e.op = "Fail" -> TFail(h)
                     [] e.op = "Helper" -> THelper(h)
                     [] OTHER -> h
         IN  Apply(h1, Tail(ev))

\* one assertion call on the handle; a panic unwinds the test body, which
\* makes no further call
CanCall(p) == status # "panicked" /\ calls < p.lim

Invoke(name, a, run) ==
    /\ LET h == Apply([failed |-> failed, log |-> log], run.ev)
       IN  /\ failed' = h.failed
           /\ log' = h.log
    /\ fn' = name
    /\ args' = a
    /\ trace' = run.ev
    /\ status' = run.st
    /\ calls' = calls + 1

-----------------------------------------------------------------------------
(* Inputs.  A profile p gives the number of calls on the handle and the    *)
(* sets the arguments are drawn from.                                      *)

Slices(V, n) == UNION {[1..k -> V] : k \in 0..n}
Maps(K, V) == UNION {[D -> V] : D \in SUBSET K}
Orders(S) == {o \in [1..Cardinality(S) -> S] : \A i, j \in DOMAIN o : i # j => o[i] # o[j]}

AnyVals == {"nil", "x"}
Msgs == {<<"e1">>, <<"w:", "e1">>}

\* a test body: several calls, small arguments
SeqP ==
    [lim |-> MaxCalls, vals |-> {0, 1}, len |-> SeqLen, keys |-> {1},
     docs |-> {"not-json", "{\"a\":1}", "{\"a\":2}"},
     kinds |-> {"uint8", "float64"},
     nums |-> [N \in NumKinds |->
                  CASE N = "float64" -> {Fin(0), Fin(1), NaN}
                    [] OTHER -> {Fin(0), Fin(1)}],
     elems |-> [N \in NumKinds |-> {Fin(0), Fin(1)}]]

\* a single call, arguments at the boundaries
OneP ==
    [lim |-> 1, vals |-> {0, 1, 2}, len |-> MaxLen, keys |-> 1..MaxKey,
     docs |-> JSONDocs,
     kinds |-> NumKinds,
     nums |-> [N \in NumKinds |->
                  CASE N = "int8" -> {Fin(v) : v \in {-128, -127, -1, 0, 1, 127}}
                    [] N = "uint8" -> {Fin(v) : v \in {0, 1, 2, 255}}
                    [] N = "float64" -> {Fin(v) : v \in {-1, 0, 1}} \cup {NaN, PosInf, NegInf}],
     elems |-> [N \in NumKinds |->
                  CASE N = "int8" -> {Fin(-128), Fin(0), Fin(127)}
                    [] N = "uint8" -> {Fin(0), Fin(255)}
                    [] N = "float64" -> {Fin(0), Fin(1), NaN}]]

-----------------------------------------------------------------------------
(* Actions: one per assertion function *)

CallNil(p) ==
    /\ CanCall(p)
    /\ \E a \in AnyVals : Invoke("Nil", [a |-> a], Nil(a))

CallNotNil(p) ==
    /\ CanCall(p)
    /\ \E a \in AnyVals : Invoke("NotNil", [a |-> a], NotNil(a))

CallTrue(p) ==
    /\ CanCall(p)
    /\ \E c \in BOOLEAN : Invoke("True", [condition |-> c], True(c))

CallFalse(p) ==
    /\ CanCall(p)
    /\ \E c \in BOOLEAN : Invoke("False", [condition |-> c], False(c))

CallError(p) ==
    /\ CanCall(p)
    /\ \E err \in Errs : Invoke("Error", [err |-> err], Error(err))

CallEqError(p) ==
    /\ CanCall(p)
    /\ \E err \in Errs, msg \in Msgs :
           Invoke("EqError", [err |-> err, msg |-> msg], EqError(err, msg))

CallErrorIs(p) ==
    /\ CanCall(p)
    /\ \E err \in Errs, target \in Errs :
           Invoke("ErrorIs", [err |-> err, target |-> target], ErrorIs(err, target))

CallNoError(p) ==
    /\ CanCall(p)
    /\ \E err \in Errs : Invoke("NoError", [err |-> err], NoError(err))

CallEq(p) ==
    /\ CanCall(p)
    /\ \E A \in Types, a \in p.vals, b \in p.vals :
           Invoke("Eq", [A |-> A, sh |-> "val", a |-> a, b |-> b], Eq(A, a, b))

CallEqCmp(p) ==
    /\ CanCall(p)
    /\ \E A \in Types, a \in p.vals, b \in p.vals :
           Invoke("EqCmp", [A |-> A, sh |-> "val", a |-> a, b |-> b], EqCmp(A, a, b))

CallEqFunc(p) ==
    /\ CanCall(p)
    /\ \E A \in Types, a \in p.vals, b \in p.vals, eq \in EqPreds :
           Invoke("EqFunc", [A |-> A, sh |-> "val", a |-> a, b |-> b, eq |-> eq],
                  EqFunc(A, a, b, eq))

CallNotEq(p) ==
    /\ CanCall(p)
    /\ \E a \in p.vals, b \in p.vals : Invoke("NotEq", [a |-> a, b |-> b], NotEq(a, b))

CallNotEqFunc(p) ==
    /\ CanCall(p)
    /\ \E a \in p.vals, b \in p.vals, eq \in EqPreds :
           Invoke("NotEqFunc", [a |-> a, b |-> b, eq |-> eq], NotEqFunc(a, b, eq))

CallEqJSON(p) ==
    /\ CanCall(p)
    /\ \E a \in p.docs, b \in p.docs : Invoke("EqJSON", [a |-> a, b |-> b], EqJSON(a, b))

CallEqSliceFunc(p) ==
    /\ CanCall(p)
    /\ \E A \in Types, a \in Slices(p.vals, p.len), b \in Slices(p.vals, p.len), eq \in EqPreds :
           Invoke("EqSliceFunc", [A |-> A, sh |-> "slice", a |-> a, b |-> b, eq |-> eq],
                  EqSliceFunc(A, a, b, eq))

CallEquals(p) ==
    /\ CanCall(p)
    /\ \E A \in Types, a \in p.vals, b \in p.vals :
           Invoke("Equals", [A |-> A, sh |-> "val", a |-> a, b |-> b], Equals(A, a, b))

CallNotEquals(p) ==
    /\ CanCall(p)
    /\ \E A \in Types, a \in p.vals, b \in p.vals :
           Invoke("NotEquals", [A |-> A, sh |-> "val", a |-> a, b |-> b],
                  NotEquals(A, a, b))

CallEqualsSlice(p) ==
    /\ CanCall(p)
    /\ \E A \in Types, a \in Slices(p.vals, p.len), b \in Slices(p.vals, p.len) :
           Invoke("EqualsSlice", [A |-> A, sh |-> "slice", a |-> a, b |-> b],
                  EqualsSlice(A, a, b))

CallLesser(p) ==
    /\ CanCall(p)
    /\ \E A \in Types, a \in p.vals, b \in p.vals :
           Invoke("Lesser", [A |-> A, sh |-> "val", a |-> a, b |-> b], Lesser(A, a, b))

CallEmptySlice(p) ==
    /\ CanCall(p)
    /\ \E slice \in Slices(p.vals, p.len) :
           Invoke("EmptySlice", [slice |-> slice], EmptySlice(slice))

CallLenSlice(p) ==
    /\ CanCall(p)
    /\ \E n \in 0..p.len, slice \in Slices(p.vals, p.len) :
           Invoke("LenSlice", [n |-> n, slice |-> slice], LenSlice(n, slice))

CallContains(p) ==
    /\ CanCall(p)
    /\ \E A \in Types, slice \in Slices(p.vals, p.len), item \in p.vals :
           Invoke("Contains", [A |-> A, slice |-> slice, item |-> item],
                  Contains(A, slice, item))

CallContainsCmp(p) ==
    /\ CanCall(p)
    /\ \E slice \in Slices(p.vals, p.len), item \in p.vals :
           Invoke("ContainsCmp", [slice |-> slice, item |-> item],
                  ContainsCmp(slice, item))

CallContainsFunc(p) ==
    /\ CanCall(p)
    /\ \E slice \in Slices(p.vals, p.len), item \in p.vals, eq \in EqPreds :
           Invoke("ContainsFunc", [slice |-> slice, item |-> item, eq |-> eq],
                  ContainsFunc(slice, item, eq))

CallContainsEquals(p) ==
    /\ CanCall(p)
    /\ \E slice \in Slices(p.vals, p.len), item \in p.vals :
           Invoke("ContainsEquals", [slice |-> slice, item |-> item],
                  ContainsEquals(slice, item))

CallLess(p) ==
    /\ CanCall(p)
    /\ \E a \in p.vals, b \in p.vals : Invoke("Less", [a |-> a, b |-> b], Less(a, b))

CallLessEq(p) ==
    /\ CanCall(p)
    /\ \E a \in p.vals, b \in p.vals : Invoke("LessEq", [a |-> a, b |-> b], LessEq(a, b))

CallGreater(p) ==
    /\ CanCall(p)
    /\ \E a \in p.vals, b \in p.vals :
           Invoke("Greater", [a |-> a, b |-> b], Greater(a, b))

CallGreaterEq(p) ==
    /\ CanCall(p)
    /\ \E a \in p.vals, b \in p.vals :
           Invoke("GreaterEq", [a |-> a, b |-> b], GreaterEq(a, b))

CallInDelta(p) ==
    /\ CanCall(p)
    /\ \E N \in p.kinds : \E a \in p.nums[N], b \in p.nums[N], delta \in p.nums[N] :
           Invoke("InDelta", [N |-> N, a |-> a, b |-> b, delta |-> delta],
                  InDelta(N, a, b, delta))

CallInDeltaSlice(p) ==
    /\ CanCall(p)
    /\ \E N \in p.kinds :
           \E a \in Slices(p.elems[N], p.len), b \in Slices(p.elems[N], p.len),
              delta \in p.elems[N] :
               Invoke("InDeltaSlice", [N |-> N, a |-> a, b |-> b, delta |-> delta],
                      InDeltaSlice(N, a, b, delta))

CallMapEq(p) ==
    /\ CanCall(p)
    /\ \E A \in Types, a \in Maps(p.keys, p.vals), b \in Maps(p.keys, p.vals) :
           \E order \in Orders(DOMAIN a) :
               Invoke("MapEq", [A |-> A, sh |-> "map", a |-> a, b |-> b, order |-> order],
                      MapEq(A, a, b, order))

CallMapEqFunc(p) ==
    /\ CanCall(p)
    /\ \E A \in Types, a \in Maps(p.keys, p.vals), b \in Maps(p.keys, p.vals), eq \in EqPreds :
           \E order \in Orders(DOMAIN a) :
               Invoke("MapEqFunc",
                      [A |-> A, sh |-> "map", a |-> a, b |-> b, eq |-> eq, order |-> order],
                      MapEqFunc(A, a, b, eq, order))

CallMapEquals(p) ==
    /\ CanCall(p)
    /\ \E A \in Types, a \in Maps(p.keys, p.vals), b \in Maps(p.keys, p.vals) :
           \E order \in Orders(DOMAIN a) :
               Invoke("MapEquals",
                      [A |-> A, sh |-> "map", a |-> a, b |-> b, order |-> order],
                      MapEquals(A, a, b, order))

CallMapLen(p) ==
    /\ CanCall(p)
    /\ \E n \in 0..Cardinality(p.keys), m \in Maps(p.keys, p.vals) :
           Invoke("MapLen", [n |-> n, m |-> m], MapLen(n, m))

CallMapEmpty(p) ==
    /\ CanCall(p)
    /\ \E m \in Maps(p.keys, p.vals) : Invoke("MapEmpty", [m |-> m], MapEmpty(m))

-----------------------------------------------------------------------------
(* Specifications *)

Init ==
    /\ failed = FALSE
    /\ log = <<>>
    /\ fn = "none"
    /\ args = <<>>
    /\ trace = <<>>
    /\ status = "idle"
    /\ calls = 0

Step(p) ==
    \/ CallNil(p) \/ CallNotNil(p) \/ CallTrue(p) \/ CallFalse(p)
    \/ CallError(p) \/ CallEqError(p) \/ CallErrorIs(p) \/ CallNoError(p)
    \/ CallEq(p) \/ CallEqCmp(p) \/ CallEqFunc(p) \/ CallNotEq(p) \/ CallNotEqFunc(p)
    \/ CallEqJSON(p) \/ CallEqSliceFunc(p)
    \/ CallEquals(p) \/ CallNotEquals(p) \/ CallEqualsSlice(p) \/ CallLesser(p)
    \/ CallEmptySlice(p) \/ CallLenSlice(p)
    \/ CallContains(p) \/ CallContainsCmp(p) \/ CallContainsFunc(p) \/ CallContainsEquals(p)
    \/ CallLess(p) \/ CallLessEq(p) \/ CallGreater(p) \/ CallGreaterEq(p)
    \/ CallInDelta(p) \/ CallInDeltaSlice(p)
    \/ CallMapEq(p) \/ CallMapEqFunc(p) \/ CallMapEquals(p)
    \/ CallMapLen(p) \/ CallMapEmpty(p)

\* a test body making up to MaxCalls assertion calls on one handle
Next == Step(SeqP)

Spec == Init /\ [][Next]_vars

\* one assertion call on a fresh handle
NextCall == Step(OneP)

SpecCall == Init /\ [][NextCall]_vars

-----------------------------------------------------------------------------
(* Properties *)

FailsAt(ev) == {i \in 1..Len(ev) : ev[i].op = "Fail"}
LogsAt(ev) == {i \in 1..Len(ev) : ev[i].op = "Logf"}
OnT == {"Helper", "Logf", "Fail"}

Returned == status = "returned"
Passed == Returned /\ FailsAt(trace) = {}
Size(x) == Cardinality(DOMAIN x)
Finite(n) == n.c = "fin"

\* C1: a returned call that marks failure has logged at least one line before
\* each Fail; a returned call that does not mark failure logs nothing.
C1_LogBeforeFail ==
    Returned =>
        /\ \A i \in FailsAt(trace) : \E j \in LogsAt(trace) : j < i
        /\ FailsAt(trace) = {} => LogsAt(trace) = {}

C1_Witness ==
    /\ fn = "EqSliceFunc" /\ Returned
    /\ Size(args.a) = Size(args.b)
    /\ FailsAt(trace) # {}

\* C2: no assertion call panics.
C2_NoPanicEscapes == status # "panicked"

\* C3: InDelta with finite operands and delta > 0 passes exactly when
\* -delta <= a-b <= delta holds for the mathematical values.
C3_InDeltaIffWithin ==
    (/\ fn = "InDelta"
     /\ Finite(args.a) /\ Finite(args.b) /\ Finite(args.delta)
     /\ args.delta.v > 0)
    => (Passed <=> /\ 0 - args.delta.v <= args.a.v - args.b.v
                   /\ args.a.v - args.b.v <= args.delta.v)

\* C4: for the operands of every call that has a comparator pair, equal(a, b)
\* implies that diff(a, b) is not the bare "difference!" banner.
C4_EqualNoBanner ==
    "sh" \in DOMAIN args =>
        (equal(args.A, args.sh, args.a, args.b)
            => diff(args.A, args.sh, args.a, args.b) # Banner)

Expected == <<";;", "expected">>

\* the message of the Fail at position i of ev: the line logged right before it
MsgOf(ev, i) == IF i > 1 /\ ev[i - 1].op = "Logf" THEN ev[i - 1].line ELSE <<>>

\* the log lines that are not messages of fail come before the first message
ContextFirst(ev) ==
    \A j \in LogsAt(ev) : (j + 1) \notin FailsAt(ev) => \A i \in FailsAt(ev) : j < i

InDeltaMsg(m) ==
    \/ HasPrefix(m, <<";;", "delta", "must", "be">>)
    \/ HasPrefix(m, <<";;", "first", "argument", "must", "be", "numeric;">>)
    \/ HasPrefix(m, <<";;", "second", "argument", "must", "be", "numeric;">>)
    \/ Len(m) >= 6 /\ m[1] = ";;" /\ m[3] = "and" /\ m[5] = "not" /\ m[6] = "within"

C6_HandleMonotone ==
    [][/\ status' # "panicked"
       /\ failed' <=> (failed \/ FailsAt(trace') # {})
       /\ failed => failed'
       /\ HasPrefix(log', log)]_vars

SliceSizeFns == {"EqSliceFunc", "EqualsSlice", "InDeltaSlice"}
MapFns == {"MapEq", "MapEqFunc", "MapEquals"}

SizeMsg ==
    IF fn \in SliceSizeFns
    THEN <<";;", "expected", "slices", "of", "same", "length", NL>>
    ELSE <<";;", "expected", "maps", "of", "same", "length", NL>>

\* C7: in the six size-checked assertions, operands of different size make the
\* call report the size message, call Fail exactly once and return, with no
\* call of a predicate, an Equals method, a key lookup or InDelta.
C7_SizeCheckFirst ==
    (fn \in SliceSizeFns \cup MapFns /\ Size(args.a) # Size(args.b)) =>
        /\ Returned
        /\ Cardinality(FailsAt(trace)) = 1
        /\ \A i \in 1..Len(trace) : trace[i].op \in OnT
        /\ trace[Len(trace)] = tFail
        /\ MsgOf(trace, Len(trace)) = SizeMsg

C7_Witness ==
    /\ fn = "MapEq" /\ args.A = "plain"
    /\ Size(args.a) = 1 /\ Size(args.b) = 2
    /\ \A k \in DOMAIN args.a : k \in DOMAIN args.b /\ args.a[k] = args.b[k]
    /\ FailsAt(trace) # {}

\* C8: InDelta with delta <= 0, or with a NaN or infinite a, b or delta, calls
\* Fail exactly once with a message that is not the "not within" message (a
\* message about delta when delta <= 0) and never computes a-b.
C8_InDeltaPreconditions ==
    (/\ fn = "InDelta"
     /\ \/ Le(args.delta, Fin(0))
        \/ ~Finite(args.a) \/ ~Finite(args.b) \/ ~Finite(args.delta))
    => /\ Returned
       /\ Cardinality(FailsAt(trace)) = 1
       /\ \A i \in 1..Len(trace) : trace[i].op # "sub"
       /\ trace[Len(trace)] = tFail
       /\ LET m == MsgOf(trace, Len(trace)) IN
          /\ m # <<>>
          /\ m # Sprintf(NotWithin, <<Show(args.a), Show(args.b), Show(args.delta)>>) \o <<NL>>
          /\ Le(args.delta, Fin(0)) => HasPrefix(m, <<";;", "delta", "must", "be">>)

C8_Witness ==
    /\ fn = "InDelta" /\ args.N = "float64"
    /\ args.a = NaN /\ args.b = Fin(0) /\ args.delta = Fin(1)
    /\ FailsAt(trace) # {}

KeyOK(k) ==
    /\ k \in DOMAIN args.b
    /\ CASE fn = "MapEq" -> equal(args.A, "val", args.a[k], args.b[k])
         [] fn = "MapEqFunc" -> ApplyEq(args.eq, args.a[k], args.b[k])
         [] fn = "MapEquals" -> EqualsMethod(args.a[k], args.b[k])

\* C9: on maps of equal cardinality the three map assertions pass exactly when
\* every key of a is in b with a value that satisfies the value comparison; a
\* pass implies equal key sets, a "same keys" message a key of a missing from
\* b, and a "same values" message a pair of values that fails the comparison.
C9_MapPassIff ==
    (fn \in MapFns /\ Size(args.a) = Size(args.b)) =>
        /\ Passed <=> \A k \in DOMAIN args.a : KeyOK(k)
        /\ Passed => DOMAIN args.a = DOMAIN args.b
        /\ \A i \in FailsAt(trace) :
              /\ MsgOf(trace, i) = SameKeys \o <<NL>>
                    => \E k \in DOMAIN args.a : k \notin DOMAIN args.b
              /\ HasPrefix(MsgOf(trace, i), <<";;", "expected", "maps", "of", "same", "values">>)
                    => \E k \in DOMAIN args.a : k \in DOMAIN args.b /\ ~KeyOK(k)

\* C10: InDeltaSlice on slices of equal length calls InDelta on every index in
\* increasing order and calls Fail once per failing pair; EqSliceFunc and
\* EqualsSlice call Fail at most once.
C10_InDeltaSliceAllPairs ==
    /\ (fn = "InDeltaSlice" /\ Len(args.a) = Len(args.b)) =>
          /\ SelectSeq(trace, LAMBDA e : e.op = "InDelta")
                = [i \in 1..Len(args.a) |-> Call("InDelta", i - 1)]
          /\ Cardinality(FailsAt(trace))
                = Cardinality({i \in 1..Len(args.a) :
                      Marks(InDelta(args.N, args.a[i], args.b[i], args.delta).ev)})
    /\ fn \in {"EqSliceFunc", "EqualsSlice"} => Cardinality(FailsAt(trace)) <= 1

C10_Witness ==
    /\ fn = "InDeltaSlice" /\ Len(args.a) = 2 /\ Len(args.b) = 2
    /\ Cardinality(FailsAt(trace)) = 2

====
